---- MODULE Spec2Model ----
(***************************************************************************)
(* Model of src/mono/mono/utils/mono-dl-wasm.c: the WebAssembly backend of *)
(* the runtime's dynamic-library loader.  The backend itself holds no      *)
(* state; the variables below are the build configuration and the state of *)
(* its callers that the operations could touch (the error sink, the        *)
(* MonoDl structs, the glib heap) together with a record of the calls made *)
(* so far, so that properties of call sequences can be stated.             *)
(***************************************************************************)
EXTENDS Integers, Sequences, FiniteSets, TLC

VARIABLES
    HOST_WASI,  \* build: TRUE when the minimal host (no <dlfcn.h>) is targeted
    dlfcn,      \* build: the RTLD_* values of the host's <dlfcn.h>, if included
    error,      \* the caller's MonoError sink (its error code)
    modules,    \* the caller's MonoDl structs, by module id
    heap,       \* glib heap: live address -> string stored there
    owned,      \* address -> number of pointers to it that
                \* mono_dl_current_error_string returned and the caller still holds
    ret,        \* the last call: [op, args, val, ptr]
    kept,       \* one earlier call, retained by the observer
    closed      \* TRUE when mono_dl_close_handle ran after the call in kept

vars == <<HOST_WASI, dlfcn, error, modules, heap, owned, ret, kept, closed>>

----------------------------------------------------------------------------
(* Bounds of the model *)

\* number of heap addresses available to g_strdup
MaxAlloc == 2
\* number of MonoDl structs the caller holds
MaxModules == 2

----------------------------------------------------------------------------
(* Program constants *)

NULL == 0

\* the largest int: every bit but the sign bit set
INT_MAX == 2147483647

\* mono-dl-fallback.h, reached through mono-dl.h
MONO_DL_LAZY == 1
MONO_DL_LOCAL == 2
MONO_DL_GLOBAL == 4
MONO_DL_MASK == 7

\* MonoError codes the caller's sink may hold
MONO_ERROR_NONE == 0
MONO_ERROR_FILE_NOT_FOUND == 4

\* <dlfcn.h> belongs to the host's libc, not to the runtime.  The two value
\* layouts in use: musl's (the libc of the emscripten host), where
\* RTLD_LOCAL is 0, and the BSD one, where every flag is a bit of its own.
HostLayouts ==
    { [RTLD_LAZY |-> 1, RTLD_NOW |-> 2, RTLD_GLOBAL |-> 256, RTLD_LOCAL |-> 0],
      [RTLD_LAZY |-> 1, RTLD_NOW |-> 2, RTLD_GLOBAL |-> 8,   RTLD_LOCAL |-> 4] }

\* on the minimal host <dlfcn.h> is not included and the names are undefined
NoDlfcn == "undefined"

RTLD_LAZY   == dlfcn.RTLD_LAZY
RTLD_NOW    == dlfcn.RTLD_NOW
RTLD_GLOBAL == dlfcn.RTLD_GLOBAL
RTLD_LOCAL  == dlfcn.RTLD_LOCAL

----------------------------------------------------------------------------
(* C's | and & on non-negative ints *)

RECURSIVE BitOr(_, _)
BitOr(a, b) ==
    IF a = 0 THEN b
    ELSE IF b = 0 THEN a
    ELSE (IF a % 2 = 1 \/ b % 2 = 1 THEN 1 ELSE 0) + 2 * BitOr(a \div 2, b \div 2)

RECURSIVE BitAnd(_, _)
BitAnd(a, b) ==
    IF a = 0 \/ b = 0 THEN 0
    ELSE (IF a % 2 = 1 /\ b % 2 = 1 THEN 1 ELSE 0) + 2 * BitAnd(a \div 2, b \div 2)

----------------------------------------------------------------------------
(* Inputs *)

Addrs == 1 .. MaxAlloc
ModuleIds == 1 .. MaxModules
ModuleArgs == {NULL} \cup ModuleIds
MonoFlags == 0 .. MONO_DL_MASK
\* native-flag baselines: none, 0x2A, 0x1000, all bits
Baselines == {0, 42, 4096, INT_MAX}
OpenFlags == {0, 258}
Files == {"libfoo", "libfoo.wasm"}
Symbols == {"foo", ""}
ErrorCodes == {MONO_ERROR_NONE, MONO_ERROR_FILE_NOT_FOUND}

NoCall == [op |-> "none", args |-> <<>>, val |-> NULL, ptr |-> NULL]

\* the number of strings the caller holds
RECURSIVE Sum(_, _)
Sum(f, S) == IF S = {} THEN 0 ELSE LET a == CHOOSE x \in S : TRUE IN f[a] + Sum(f, S \ {a})
Held == Sum(owned, Addrs)

----------------------------------------------------------------------------
(* The backend's functions *)

mono_dl_get_so_prefix == ""

\* variant: the bare name is probed before the extensioned one
mono_dl_get_so_suffixes_bare_first == <<"", ".wasm">>

mono_dl_get_so_suffixes == <<".wasm", "">>

mono_dl_get_system_dir == NULL

\* variant: the lookup hands back what the module's handle field holds
mono_dl_lookup_symbol_from_handle(module, name) ==
    IF module = NULL THEN NULL ELSE modules[module].handle

\* module is a MonoDl pointer: NULL or a module id
mono_dl_lookup_symbol(module, name) == NULL

\* g_strdup: a copy of s at any address that is not live; the outcomes are
\* the pairs of new heap and returned pointer.
g_strdup(h, s) ==
    { [heap |-> (p :> s) @@ h, ret |-> p] : p \in Addrs \ DOMAIN h }

\* variant: the address of one static empty string instead of a copy
mono_dl_current_error_string_static(h) ==
    LET p == CHOOSE a \in Addrs : TRUE IN { [heap |-> (p :> "") @@ h, ret |-> p] }

mono_dl_current_error_string(h) == g_strdup(h, "")

\* variant: lflags starts from 0 instead of native_flags
mono_dl_convert_flags_no_baseline(mono_flags, native_flags) ==
    IF HOST_WASI THEN native_flags
    ELSE BitOr(IF BitAnd(mono_flags, MONO_DL_GLOBAL) # 0
                  /\ ~(BitAnd(mono_flags, MONO_DL_LOCAL) # 0)
               THEN RTLD_GLOBAL ELSE RTLD_LOCAL,
               IF BitAnd(mono_flags, MONO_DL_LAZY) # 0 THEN RTLD_LAZY ELSE RTLD_NOW)

\* variant: the test for MONO_DL_LOCAL is missing, so GLOBAL wins the tie
mono_dl_convert_flags_global_wins(mono_flags, native_flags) ==
    IF HOST_WASI THEN native_flags
    ELSE BitOr(BitOr(native_flags,
                     IF BitAnd(mono_flags, MONO_DL_GLOBAL) # 0
                     THEN RTLD_GLOBAL ELSE RTLD_LOCAL),
               IF BitAnd(mono_flags, MONO_DL_LAZY) # 0 THEN RTLD_LAZY ELSE RTLD_NOW)

\* variant: the two scope branches are exchanged
mono_dl_convert_flags_scope_swapped(mono_flags, native_flags) ==
    IF HOST_WASI THEN native_flags
    ELSE BitOr(BitOr(native_flags,
                     IF BitAnd(mono_flags, MONO_DL_GLOBAL) # 0
                        /\ ~(BitAnd(mono_flags, MONO_DL_LOCAL) # 0)
                     THEN RTLD_LOCAL ELSE RTLD_GLOBAL),
               IF BitAnd(mono_flags, MONO_DL_LAZY) # 0 THEN RTLD_LAZY ELSE RTLD_NOW)

\* variant: both binding bits are added when LAZY is requested
mono_dl_convert_flags_lazy_and_now(mono_flags, native_flags) ==
    IF HOST_WASI THEN native_flags
    ELSE BitOr(BitOr(native_flags,
                     IF BitAnd(mono_flags, MONO_DL_GLOBAL) # 0
                        /\ ~(BitAnd(mono_flags, MONO_DL_LOCAL) # 0)
                     THEN RTLD_GLOBAL ELSE RTLD_LOCAL),
               IF BitAnd(mono_flags, MONO_DL_LAZY) # 0
               THEN BitOr(RTLD_LAZY, RTLD_NOW) ELSE RTLD_NOW)

\* variant: the minimal host passes the portable flags through as native ones
mono_dl_convert_flags_wasi_passthrough(mono_flags, native_flags) ==
    BitOr(native_flags, mono_flags)

mono_dl_convert_flags(mono_flags, native_flags) ==
    LET lflags0 == native_flags
        lflags1 ==
            IF HOST_WASI THEN lflags0
            ELSE IF BitAnd(mono_flags, MONO_DL_GLOBAL) # 0
                    /\ ~(BitAnd(mono_flags, MONO_DL_LOCAL) # 0)
                 THEN BitOr(lflags0, RTLD_GLOBAL)
                 ELSE BitOr(lflags0, RTLD_LOCAL)
        lflags2 ==
            IF HOST_WASI THEN lflags1
            ELSE IF BitAnd(mono_flags, MONO_DL_LAZY) # 0
                 THEN BitOr(lflags1, RTLD_LAZY)
                 ELSE BitOr(lflags1, RTLD_NOW)
    IN  lflags2

\* variant: the absent result is reported through the error sink
mono_dl_open_file_sets_error(file, flags, err) ==
    [ret |-> NULL, error |-> MONO_ERROR_FILE_NOT_FOUND]

\* returns the handle and the error sink as the call leaves it
mono_dl_open_file(file, flags, err) == [ret |-> NULL, error |-> err]

\* variant: the close clears the struct's handle field
mono_dl_close_handle_clears(module, err) ==
    [modules |-> IF module = NULL THEN modules
                 ELSE [modules EXCEPT ![module].handle = NULL],
     error |-> err]

\* returns the MonoDl structs and the error sink as the call leaves them
mono_dl_close_handle(module, err) == [modules |-> modules, error |-> err]

\* the caller's release of a string it owns
g_free(h, p) == [a \in DOMAIN h \ {p} |-> h[a]]

----------------------------------------------------------------------------
(* The observer: remembers the last call, and may retain the one before *)

Observe(call, isClose) ==
    /\ ret' = call
    /\ \E keep \in BOOLEAN :
          IF keep \/ ret.op = "none"
          THEN kept' = kept /\ closed' = (kept.op # "none" /\ (closed \/ isClose))
          ELSE kept' = ret /\ closed' = isClose

----------------------------------------------------------------------------
(* State machine *)

Init ==
    /\ HOST_WASI \in BOOLEAN
    /\ IF HOST_WASI THEN dlfcn = NoDlfcn ELSE dlfcn \in HostLayouts
    /\ error \in ErrorCodes
    /\ modules = [m \in ModuleIds |-> [handle |-> IF m = 1 THEN NULL ELSE m]]
    /\ heap = [a \in {} |-> ""]
    /\ owned = [a \in Addrs |-> 0]
    /\ ret = NoCall
    /\ kept = NoCall
    /\ closed = FALSE

GetSoPrefix ==
    /\ Observe([op |-> "get_so_prefix", args |-> <<>>,
                val |-> mono_dl_get_so_prefix, ptr |-> NULL], FALSE)
    /\ UNCHANGED <<HOST_WASI, dlfcn, error, modules, heap, owned>>

GetSoSuffixes ==
    /\ Observe([op |-> "get_so_suffixes", args |-> <<>>,
                val |-> mono_dl_get_so_suffixes, ptr |-> NULL], FALSE)
    /\ UNCHANGED <<HOST_WASI, dlfcn, error, modules, heap, owned>>

GetSystemDir ==
    /\ Observe([op |-> "get_system_dir", args |-> <<>>,
                val |-> mono_dl_get_system_dir, ptr |-> NULL], FALSE)
    /\ UNCHANGED <<HOST_WASI, dlfcn, error, modules, heap, owned>>

LookupSymbol ==
    \E m \in ModuleArgs, name \in Symbols :
        /\ Observe([op |-> "lookup_symbol", args |-> <<m, name>>,
                    val |-> mono_dl_lookup_symbol(m, name), ptr |-> NULL], FALSE)
        /\ UNCHANGED <<HOST_WASI, dlfcn, error, modules, heap, owned>>

CurrentErrorString ==
    /\ Held < MaxAlloc
    /\ \E o \in mono_dl_current_error_string(heap) :
        /\ heap' = o.heap
        /\ owned' = [owned EXCEPT ![o.ret] = @ + 1]
        /\ Observe([op |-> "current_error_string", args |-> <<>>,
                    val |-> IF o.ret \in DOMAIN o.heap THEN o.heap[o.ret] ELSE "?",
                    ptr |-> o.ret], FALSE)
    /\ UNCHANGED <<HOST_WASI, dlfcn, error, modules>>

ConvertFlags ==
    \E mono_flags \in MonoFlags, native_flags \in Baselines :
        /\ Observe([op |-> "convert_flags", args |-> <<mono_flags, native_flags>>,
                    val |-> mono_dl_convert_flags(mono_flags, native_flags),
                    ptr |-> NULL], FALSE)
        /\ UNCHANGED <<HOST_WASI, dlfcn, error, modules, heap, owned>>

OpenFile ==
    \E file \in Files, flags \in OpenFlags :
        LET o == mono_dl_open_file(file, flags, error) IN
        /\ error' = o.error
        /\ Observe([op |-> "open_file", args |-> <<file, flags>>,
                    val |-> o.ret, ptr |-> NULL], FALSE)
        /\ UNCHANGED <<HOST_WASI, dlfcn, modules, heap, owned>>

CloseHandle ==
    \E m \in ModuleArgs :
        LET o == mono_dl_close_handle(m, error) IN
        /\ error' = o.error
        /\ modules' = o.modules
        /\ Observe([op |-> "close_handle", args |-> <<m>>,
                    val |-> NULL, ptr |-> NULL], TRUE)
        /\ UNCHANGED <<HOST_WASI, dlfcn, heap, owned>>

\* the caller releases one of the strings it was handed
Release ==
    \E p \in Addrs :
        /\ owned[p] > 0
        /\ p \in DOMAIN heap
        /\ heap' = g_free(heap, p)
        /\ owned' = [owned EXCEPT ![p] = @ - 1]
        /\ UNCHANGED <<HOST_WASI, dlfcn, error, modules, ret, kept, closed>>

Next ==
    \/ GetSoPrefix
    \/ GetSoSuffixes
    \/ GetSystemDir
    \/ LookupSymbol
    \/ CurrentErrorString
    \/ ConvertFlags
    \/ OpenFile
    \/ CloseHandle
    \/ Release

Spec == Init /\ [][Next]_vars

----------------------------------------------------------------------------
(* Vocabulary of the properties *)

\* bit i of x
Bit(x, i) == (x \div 2^i) % 2
BitPositions == 0 .. 30
\* the portable flag set F requests the (single-bit) flag
Requests(F, flag) == (F \div flag) % 2 = 1
\* every bit of mask m is set in x
Includes(x, m) == \A i \in BitPositions : Bit(m, i) = 1 => Bit(x, i) = 1
\* no bit of mask m is set in x
Excludes(x, m) == \A i \in BitPositions : Bit(m, i) = 1 => Bit(x, i) = 0
\* x with the bits of b taken away: what a call added to its baseline b
RECURSIVE Added(_, _)
Added(x, b) ==
    IF x = 0 THEN 0
    ELSE (IF x % 2 = 1 /\ b % 2 = 0 THEN 1 ELSE 0) + 2 * Added(x \div 2, b \div 2)

\* the last call was mono_dl_convert_flags on a host with loader flags
FullConvert == ret.op = "convert_flags" /\ ~HOST_WASI
ArgF == ret.args[1]
ArgB == ret.args[2]
Scope(F) ==
    IF Requests(F, MONO_DL_GLOBAL) /\ ~Requests(F, MONO_DL_LOCAL)
    THEN RTLD_GLOBAL ELSE RTLD_LOCAL
Binding(F) == IF Requests(F, MONO_DL_LAZY) THEN RTLD_LAZY ELSE RTLD_NOW
\* the observer holds two calls of the same operation with the same arguments
SameCall == kept.op = ret.op /\ kept.args = ret.args

----------------------------------------------------------------------------
(* Properties *)

\* C1: on a host with loader flags the result of mono_dl_convert_flags(F, B)
\* is, bit for bit, B OR scope(F) OR binding(F): every bit of B is in it and
\* no bit outside B, scope(F) and binding(F) is.
C1_ConvertIsOrOfContributions ==
    FullConvert =>
        \A i \in BitPositions :
            Bit(ret.val, i) = 1 <=>
                \/ Bit(ArgB, i) = 1
                \/ Bit(Scope(ArgF), i) = 1
                \/ Bit(Binding(ArgF), i) = 1

C1_Witness ==
    /\ FullConvert
    /\ ArgF = MONO_DL_GLOBAL + MONO_DL_LAZY
    /\ ArgB = 4096
    /\ ret.val # ArgB

\* C2, as stated: with GLOBAL and LOCAL both requested the result has the
\* host's LOCAL-scope bit and does not carry the GLOBAL-scope bit, for any
\* baseline.
C2_AsStated ==
    (FullConvert /\ Requests(ArgF, MONO_DL_GLOBAL) /\ Requests(ArgF, MONO_DL_LOCAL)) =>
        /\ Includes(ret.val, RTLD_LOCAL)
        /\ Excludes(ret.val, RTLD_GLOBAL)

\* C2, amended: with GLOBAL and LOCAL both requested the result has the
\* host's LOCAL-scope bit and the translator does not add the GLOBAL-scope
\* bit: the result carries it exactly when the baseline already did.
C2_LocalWinsTie ==
    (FullConvert /\ Requests(ArgF, MONO_DL_GLOBAL) /\ Requests(ArgF, MONO_DL_LOCAL)) =>
        /\ Includes(ret.val, RTLD_LOCAL)
        /\ Excludes(Added(ret.val, ArgB), RTLD_GLOBAL)
        /\ Includes(ret.val, RTLD_GLOBAL) <=> Includes(ArgB, RTLD_GLOBAL)

C2_Witness ==
    /\ FullConvert
    /\ ArgF = MONO_DL_GLOBAL + MONO_DL_LOCAL
    /\ RTLD_LOCAL # 0
    /\ Excludes(ArgB, RTLD_GLOBAL)
    /\ Excludes(ArgB, RTLD_LOCAL)

\* C3: with GLOBAL requested and LOCAL not, the result has the host's
\* GLOBAL-scope bit, and the bits of the result that are not in B do not
\* include the host's LOCAL-scope bit.
C3_GlobalAlone ==
    (FullConvert /\ Requests(ArgF, MONO_DL_GLOBAL) /\ ~Requests(ArgF, MONO_DL_LOCAL)) =>
        /\ Includes(ret.val, RTLD_GLOBAL)
        /\ Excludes(Added(ret.val, ArgB), RTLD_LOCAL)

C3_Witness ==
    /\ FullConvert
    /\ ArgF = MONO_DL_GLOBAL
    /\ RTLD_LOCAL # 0
    /\ Excludes(ArgB, RTLD_GLOBAL)

\* C4: the result has the host's LAZY-binding bit whenever F requests LAZY
\* and the NOW-binding bit whenever it does not (F = 0 included); the
\* translator never adds NOW when LAZY is requested, nor LAZY when it is not.
C4_Binding ==
    FullConvert =>
        IF Requests(ArgF, MONO_DL_LAZY)
        THEN /\ Includes(ret.val, RTLD_LAZY)
             /\ Excludes(Added(ret.val, ArgB), RTLD_NOW)
        ELSE /\ Includes(ret.val, RTLD_NOW)
             /\ Excludes(Added(ret.val, ArgB), RTLD_LAZY)

C4_Witness ==
    /\ FullConvert
    /\ kept.op = "convert_flags"
    /\ ArgF = MONO_DL_LAZY
    /\ kept.args[1] = 0
    /\ ArgB = 0
    /\ kept.args[2] = 0
    /\ ret.val # kept.val

\* C5: on the minimal host mono_dl_convert_flags(F, B) is B, and two calls
\* with the same B return the same value whatever their F.
C5_MinimalHostIgnoresFlags ==
    (HOST_WASI /\ ret.op = "convert_flags") =>
        /\ ret.val = ArgB
        /\ (kept.op = "convert_flags" /\ kept.args[2] = ArgB) => kept.val = ret.val

C5_Witness ==
    /\ HOST_WASI
    /\ ret.op = "convert_flags"
    /\ kept.op = "convert_flags"
    /\ ArgB = 42
    /\ kept.args[2] = 42
    /\ ArgF = MONO_DL_MASK
    /\ kept.args[1] = 0

\* C6: whatever was called before, mono_dl_get_so_prefix returns "",
\* mono_dl_get_system_dir returns NULL and mono_dl_get_so_suffixes returns
\* the list of exactly ".wasm" and then "".
C6_PlatformShape ==
    /\ ret.op = "get_so_prefix" => ret.val = ""
    /\ ret.op = "get_system_dir" => ret.val = NULL
    /\ ret.op = "get_so_suffixes" =>
          /\ Len(ret.val) = 2
          /\ ret.val[1] = ".wasm"
          /\ ret.val[2] = ""

C6_Witness ==
    /\ ret.op = "get_so_suffixes"
    /\ kept.op = "close_handle"
    /\ Held > 0

\* C7: mono_dl_open_file returns NULL for every file, flags and error sink,
\* and the step that makes the call leaves the error sink as it was.
C7_OpenIsInert ==
    /\ [](ret.op = "open_file" => ret.val = NULL)
    /\ [][ret'.op = "open_file" => error' = error]_vars

C7_Witness ==
    /\ ret.op = "open_file"
    /\ ret.args = <<"libfoo", 0>>
    /\ error = MONO_ERROR_NONE

\* C8: in every reachable state, mono_dl_lookup_symbol returns NULL for
\* every module and name.
C8_LookupIsAbsent ==
    ret.op = "lookup_symbol" => ret.val = NULL

C8_Witness ==
    /\ ret.op = "lookup_symbol"
    /\ ret.args[1] # NULL
    /\ modules[ret.args[1]].handle # NULL
    /\ kept.op = "open_file"

\* C9: mono_dl_current_error_string returns a non-null pointer to an empty
\* string; every string the caller still holds is live, empty and held
\* once, so no two calls share an allocation and a release leaves the
\* other strings intact.
C9_ErrorStringFresh ==
    /\ ret.op = "current_error_string" => (ret.ptr # NULL /\ ret.val = "")
    /\ \A a \in Addrs :
          /\ owned[a] <= 1
          /\ owned[a] = 1 => (a \in DOMAIN heap /\ heap[a] = "")

C9_Witness ==
    /\ ret.op = "current_error_string"
    /\ kept.op = "current_error_string"
    /\ kept.ptr # ret.ptr
    /\ Held = 2

\* C10: a step that calls mono_dl_close_handle leaves the error sink, the
\* MonoDl structs and the heap as they were, and an operation called after
\* a close returns what it returned for the same arguments before it.
C10_CloseIsNoOp ==
    /\ [][ret'.op = "close_handle" =>
            (error' = error /\ modules' = modules /\ (owned' = owned => heap' = heap))]_vars
    /\ []((closed /\ SameCall) => kept.val = ret.val)

C10_Witness ==
    /\ closed
    /\ SameCall
    /\ ret.op = "lookup_symbol"
    /\ ret.args[1] # NULL
    /\ modules[ret.args[1]].handle # NULL

====
